---- MODULE Spec2Model ----
(***************************************************************************)
(* tautulli-exporter (src/main.py): a poll loop that queries the Tautulli  *)
(* activity API behind a consecutive-failure circuit breaker, six          *)
(* Prometheus gauges, and a threaded HTTP server with /healthz, /ready and *)
(* /metrics.  The main thread runs the poll loop; every accepted           *)
(* connection runs HealthHandler.do_GET on a thread of its own.            *)
(***************************************************************************)
EXTENDS Integers, Sequences, FiniteSets, TLC

\* ---------------------------------------------------------------- bounds
NumHandlers == 1        \* handler threads that may run at the same time
MaxSessions == 1        \* longest session list the upstream returns
MaxWaits == 5           \* scrape intervals of wall-clock time that are modelled
MaxList == 2            \* longest session list given to the classification alone

\* ------------------------------------------------------- program constants
MAX_CONSECUTIVE_FAILURES == 5
\* seconds; the smallest interval validate_config accepts
SCRAPE_INTERVAL == 5
REQUEST_TIMEOUT == 10

\* time.time() when the process starts: far enough from the sentinel 0 that
\* "now - 0" is outside the staleness window, as it is for any real clock
StartTime == 2 * SCRAPE_INTERVAL
MaxTime == StartTime + MaxWaits * SCRAPE_INTERVAL

\* an upstream request returns at once or runs for the whole timeout
RequestDurations == {0, REQUEST_TIMEOUT}

MainThread == 0
Handlers == 1..NumHandlers

\* the gauges in the order of their creation, which is the order in which
\* the poll sets them and in which the registry renders them
GaugeOrder == << "plex_active_streams_total", "plex_active_streams_direct",
                 "plex_active_streams_transcode", "plex_transcode_video_sessions",
                 "plex_transcode_audio_sessions", "plex_transcode_container_sessions" >>
GaugeNames == { GaugeOrder[i] : i \in 1..Len(GaugeOrder) }

\* ---------------------------------------------------------- session data
Fields == { "transcode_video_decision", "transcode_audio_decision",
            "transcode_container_decision" }
Decisions == { "direct play", "transcode", "copy" }

\* a JSON object with any subset of the decision fields
Dict(d) == [isdict |-> TRUE, d |-> d]
\* an element of the sessions array that is not a JSON object: session.get raises
NotADict == [isdict |-> FALSE, d |-> << >>]

RawSessions == { Dict(d) : d \in UNION { [F -> Decisions] : F \in SUBSET Fields } }

SeqsUpTo(S, n) == UNION { [1..k -> S] : k \in 0..n }

\* the session objects the upstream returns in the model of the whole program
NoFields == Dict(<< >>)
VideoTranscode == Dict([f \in {"transcode_video_decision"} |-> "transcode"])
AllTranscode == Dict([f \in Fields |-> "transcode"])
UpstreamItems == { NoFields, VideoTranscode, AllTranscode, NotADict }
UpstreamSessions == SeqsUpTo(UpstreamItems, MaxSessions)
\* an idle server, and a sessions array whose element is not an object
ProbeSessions == { << >>, << NotADict >> }

\* dict.get(key, default)
Get(s, key, default) == IF key \in DOMAIN s.d THEN s.d[key] ELSE default

B2N(b) == IF b THEN 1 ELSE 0

ZeroCounts == [ total |-> 0, direct |-> 0, transcode |-> 0,
                video |-> 0, audio |-> 0, container |-> 0, raised |-> FALSE ]

\* variant: the stream counts as a transcode once per transcoded dimension
CountSession_PerField(acc, s) ==
    IF ~s.isdict THEN [acc EXCEPT !.raised = TRUE]
    ELSE LET video_decision == Get(s, "transcode_video_decision", "direct play")
             audio_decision == Get(s, "transcode_audio_decision", "direct play")
             container_decision == Get(s, "transcode_container_decision", "direct play")
             anyTranscode == \E x \in {video_decision, audio_decision, container_decision} :
                                 x = "transcode"
         IN [acc EXCEPT !.video = @ + B2N(video_decision = "transcode"),
                        !.audio = @ + B2N(audio_decision = "transcode"),
                        !.container = @ + B2N(container_decision = "transcode"),
                        !.transcode = @ + B2N(video_decision = "transcode")
                                        + B2N(audio_decision = "transcode")
                                        + B2N(container_decision = "transcode"),
                        !.direct = @ + B2N(~anyTranscode)]

\* one pass of the loop body "for session in sessions"
CountSession(acc, s) ==
    IF ~s.isdict THEN [acc EXCEPT !.raised = TRUE]
    ELSE LET video_decision == Get(s, "transcode_video_decision", "direct play")
             audio_decision == Get(s, "transcode_audio_decision", "direct play")
             container_decision == Get(s, "transcode_container_decision", "direct play")
             anyTranscode == \E x \in {video_decision, audio_decision, container_decision} :
                                 x = "transcode"
         IN [acc EXCEPT !.video = @ + B2N(video_decision = "transcode"),
                        !.audio = @ + B2N(audio_decision = "transcode"),
                        !.container = @ + B2N(container_decision = "transcode"),
                        !.transcode = @ + B2N(anyTranscode),
                        !.direct = @ + B2N(~anyTranscode)]

RECURSIVE CountFrom(_, _, _)
CountFrom(acc, ss, i) ==
    IF i > Len(ss) \/ acc.raised THEN acc
    ELSE CountFrom(CountSession(acc, ss[i]), ss, i + 1)

\* the counters of one poll; raised = TRUE when the loop threw
Classify(ss) == CountFrom([ZeroCounts EXCEPT !.total = Len(ss)], ss, 1)

CountOf(c, g) ==
    CASE g = "plex_active_streams_total" -> c.total
      [] g = "plex_active_streams_direct" -> c.direct
      [] g = "plex_active_streams_transcode" -> c.transcode
      [] g = "plex_transcode_video_sessions" -> c.video
      [] g = "plex_transcode_audio_sessions" -> c.audio
      [] g = "plex_transcode_container_sessions" -> c.container

\* ------------------------------------------------------------- /ready
NoResp == [status |-> 0, body |-> << >>]

\* variants of the decision: the window closed one second late, no startup
\* grace, and either test of the second clause being enough
ReadyResponse_Inclusive(last_scrape, failures, t) ==
    LET time_since_last_success == t - last_scrape
    IN IF last_scrape = 0 \/ ( time_since_last_success <= SCRAPE_INTERVAL * 2
                               /\ failures < MAX_CONSECUTIVE_FAILURES )
       THEN [status |-> 200, body |-> << "READY" >>]
       ELSE [status |-> 503,
             body |-> << "NOT READY", time_since_last_success, failures >>]

ReadyResponse_NoGrace(last_scrape, failures, t) ==
    LET time_since_last_success == t - last_scrape
    IN IF time_since_last_success < SCRAPE_INTERVAL * 2
          /\ failures < MAX_CONSECUTIVE_FAILURES
       THEN [status |-> 200, body |-> << "READY" >>]
       ELSE [status |-> 503,
             body |-> << "NOT READY", time_since_last_success, failures >>]

ReadyResponse_EitherTest(last_scrape, failures, t) ==
    LET time_since_last_success == t - last_scrape
    IN IF last_scrape = 0 \/ time_since_last_success < SCRAPE_INTERVAL * 2
                          \/ failures < MAX_CONSECUTIVE_FAILURES
       THEN [status |-> 200, body |-> << "READY" >>]
       ELSE [status |-> 503,
             body |-> << "NOT READY", time_since_last_success, failures >>]

\* the decision of the readiness probe on the values it read
ReadyResponse(last_scrape, failures, t) ==
    LET time_since_last_success == t - last_scrape
    IN IF last_scrape = 0 \/ ( time_since_last_success < SCRAPE_INTERVAL * 2
                               /\ failures < MAX_CONSECUTIVE_FAILURES )
       THEN [status |-> 200, body |-> << "READY" >>]
       ELSE [status |-> 503,
             body |-> << "NOT READY", time_since_last_success, failures >>]

\* ---------------------------------------------------------------- state
VARIABLES
    consecutive_failures,     \* global, line 40
    last_successful_scrape,   \* global, line 42; 0 = never
    metrics_lock,             \* << >> when free, << t >> when thread t holds it
    shutdown_event,           \* threading.Event flag
    gauges,                   \* the six Gauge values
    now,                      \* time.time()
    pc,                       \* position of the main thread
    sessions,                 \* get_tautulli_activity: local sessions
    counts,                   \* get_tautulli_activity: the local counters
    gi,                       \* index of the next gauge to set
    exc,                      \* exception the current tick is handling
    tick_start,               \* the counter and the timestamp when the tick under way
                              \* began; between ticks, their current values
    outcome,                  \* how the last tick ended: "success", "failure", "skipped"
    last_set,                 \* the gauge values written by the last completed update
    httpd,                    \* "serving" or "stopped"
    handlers                  \* handler threads

vars == << consecutive_failures, last_successful_scrape, metrics_lock,
           shutdown_event, gauges, now, pc, sessions, counts, gi, exc,
           tick_start, outcome, last_set, httpd, handlers >>

shared == << consecutive_failures, last_successful_scrape, gauges >>
pollLocals == << sessions, counts, gi, exc, tick_start, outcome, last_set >>

IdleHandler == [ pc |-> "idle", path |-> "", last_scrape |-> 0, failures |-> 0,
                 out |-> << >>, resp |-> NoResp ]

Snapshot == [ failures |-> consecutive_failures,
              last_success |-> last_successful_scrape ]

Init ==
    /\ consecutive_failures = 0
    /\ last_successful_scrape = 0
    /\ metrics_lock = << >>
    /\ shutdown_event = FALSE
    /\ gauges = [g \in GaugeNames |-> 0]
    /\ now = StartTime
    /\ pc = "loop"
    /\ sessions = << >>
    /\ counts = ZeroCounts
    /\ gi = 1
    /\ exc = "none"
    /\ tick_start = [ failures |-> 0, last_success |-> 0 ]
    /\ outcome = "none"
    /\ last_set = [g \in GaugeNames |-> 0]
    /\ httpd = "serving"
    /\ handlers = [h \in Handlers |-> IdleHandler]

Running == pc # "exited"

\* ------------------------------------------------------ the metrics mutex
Acquire(t) == metrics_lock = << >> /\ metrics_lock' = << t >>
Release(t) == metrics_lock = << t >> /\ metrics_lock' = << >>

\* ------------------------------------------------------------ poll loop
\* variant: while True
LoopCheck_IgnoresEvent ==
    /\ pc = "loop"
    /\ pc' = "circuit_lock" /\ exc' = "none" /\ tick_start' = Snapshot
    /\ outcome' = "none"
    /\ UNCHANGED << shared, metrics_lock, shutdown_event, now, sessions, counts,
                    gi, last_set, httpd, handlers >>

\* while not shutdown_event.is_set(): get_tautulli_activity()
LoopCheck ==
    /\ pc = "loop"
    /\ IF shutdown_event
       THEN pc' = "cleanup" /\ UNCHANGED << exc, tick_start, outcome >>
       ELSE pc' = "circuit_lock" /\ exc' = "none" /\ tick_start' = Snapshot
                                 /\ outcome' = "none"
    /\ UNCHANGED << shared, metrics_lock, shutdown_event, now, sessions, counts,
                    gi, last_set, httpd, handlers >>

\* with metrics_lock:  (line 149)
CircuitLock ==
    /\ pc = "circuit_lock"
    /\ Acquire(MainThread)
    /\ pc' = "circuit_check"
    /\ UNCHANGED << shared, shutdown_event, now, pollLocals, httpd, handlers >>

\* variant: > instead of >=
CircuitOpen_Strict == consecutive_failures > MAX_CONSECUTIVE_FAILURES

\* variant: no circuit breaker
CircuitOpen_Disabled == FALSE

\* if consecutive_failures >= MAX_CONSECUTIVE_FAILURES: return
CircuitOpen == consecutive_failures >= MAX_CONSECUTIVE_FAILURES

\* variant: metrics_lock.acquire() with no release after the check
CircuitCheck_KeepsLock ==
    /\ pc = "circuit_check"
    /\ IF CircuitOpen
       THEN pc' = "wait" /\ outcome' = "skipped"
       ELSE pc' = "request" /\ UNCHANGED outcome
    /\ UNCHANGED << shared, metrics_lock, shutdown_event, now, sessions, counts,
                    gi, exc, tick_start, last_set, httpd, handlers >>

CircuitCheck ==
    /\ pc = "circuit_check"
    /\ Release(MainThread)
    /\ IF CircuitOpen
       THEN pc' = "wait" /\ outcome' = "skipped"
       ELSE pc' = "request" /\ UNCHANGED outcome
    /\ UNCHANGED << shared, shutdown_event, now, sessions, counts, gi, exc,
                    tick_start, last_set, httpd, handlers >>

\* requests.get(...) is called
SendRequest ==
    /\ pc = "request"
    /\ pc' = "in_flight"
    /\ UNCHANGED << shared, metrics_lock, shutdown_event, now, pollLocals,
                    httpd, handlers >>

\* the exceptions raised before the success is recorded (lines 163-172)
RequestErrors == { "Timeout", "ConnectionError", "HTTPError", "JSONDecodeError",
                   "Exception" }

\* requests.get returns or raises; raise_for_status, json(), the result check
RequestFails ==
    /\ pc = "in_flight"
    /\ \E e \in RequestErrors, d \in RequestDurations :
          /\ e = "Timeout" => d = REQUEST_TIMEOUT
          /\ now + d <= MaxTime
          /\ now' = now + d
          /\ exc' = e
    /\ pc' = "except_lock"
    /\ UNCHANGED << shared, metrics_lock, shutdown_event, sessions, counts, gi,
                    tick_start, outcome, last_set, httpd, handlers >>

RequestSucceeds(S) ==
    /\ pc = "in_flight"
    /\ \E ss \in S, d \in RequestDurations :
          /\ now + d <= MaxTime
          /\ now' = now + d
          /\ sessions' = ss
    /\ pc' = "success_lock"
    /\ UNCHANGED << shared, metrics_lock, shutdown_event, counts, gi, exc,
                    tick_start, outcome, last_set, httpd, handlers >>

\* variant: the success is recorded without waiting for the lock
SuccessLock_NoWait ==
    /\ pc = "success_lock"
    /\ metrics_lock' = << MainThread >>
    /\ pc' = "success_write"
    /\ UNCHANGED << shared, shutdown_event, now, pollLocals, httpd, handlers >>

\* with metrics_lock:  (line 175)
SuccessLock ==
    /\ pc = "success_lock"
    /\ Acquire(MainThread)
    /\ pc' = "success_write"
    /\ UNCHANGED << shared, shutdown_event, now, pollLocals, httpd, handlers >>

\* consecutive_failures = 0; last_successful_scrape = time.time()
SuccessWrite ==
    /\ pc = "success_write"
    /\ consecutive_failures' = 0
    /\ last_successful_scrape' = now
    /\ Release(MainThread)
    /\ pc' = "classify"
    /\ UNCHANGED << shutdown_event, gauges, now, pollLocals, httpd, handlers >>

\* variant: no generic except branch and no try in the main loop, so an
\* exception of the counting loop ends the process
ClassifySessions_Uncaught ==
    /\ pc = "classify"
    /\ LET c == Classify(sessions)
       IN IF c.raised
          THEN /\ exc' = "Exception"
               /\ pc' = "crashed"
               /\ UNCHANGED << counts, gi >>
          ELSE /\ counts' = c
               /\ gi' = 1
               /\ pc' = "set_gauges"
               /\ UNCHANGED exc
    /\ sessions' = << >>
    /\ UNCHANGED << shared, metrics_lock, shutdown_event, now, tick_start,
                    outcome, last_set, httpd, handlers >>

\* lines 180-206: the counters are locals until the loop is over
ClassifySessions ==
    /\ pc = "classify"
    /\ LET c == Classify(sessions)
       IN IF c.raised
          THEN /\ exc' = "Exception"
               /\ pc' = "except_lock"
               /\ UNCHANGED << counts, gi >>
          ELSE /\ counts' = c
               /\ gi' = 1
               /\ pc' = "set_gauges"
               /\ UNCHANGED exc
    /\ sessions' = << >>
    /\ UNCHANGED << shared, metrics_lock, shutdown_event, now, tick_start,
                    outcome, last_set, httpd, handlers >>

\* lines 209-214: one Gauge.set per step, outside metrics_lock
SetGauge ==
    /\ pc = "set_gauges"
    /\ gauges' = [gauges EXCEPT ![GaugeOrder[gi]] = CountOf(counts, GaugeOrder[gi])]
    /\ IF gi = Len(GaugeOrder)
       THEN /\ pc' = "wait" /\ gi' = 1 /\ counts' = ZeroCounts
            /\ last_set' = gauges' /\ outcome' = "success" /\ tick_start' = Snapshot
       ELSE /\ pc' = pc /\ gi' = gi + 1
            /\ UNCHANGED << counts, last_set, outcome, tick_start >>
    /\ UNCHANGED << consecutive_failures, last_successful_scrape, metrics_lock,
                    shutdown_event, now, sessions, exc, httpd, handlers >>

\* except ...: with metrics_lock:
ExceptLock ==
    /\ pc = "except_lock"
    /\ Acquire(MainThread)
    /\ pc' = "except_incr"
    /\ UNCHANGED << shared, shutdown_event, now, pollLocals, httpd, handlers >>

\* variant: a failure also resets the gauges to zero
ExceptIncr_ZeroGauges ==
    /\ pc = "except_incr"
    /\ consecutive_failures' = consecutive_failures + 1
    /\ gauges' = [g \in GaugeNames |-> 0]
    /\ Release(MainThread)
    /\ pc' = "wait"
    /\ exc' = "none"
    /\ outcome' = "failure"
    /\ tick_start' = [ failures |-> consecutive_failures',
                       last_success |-> last_successful_scrape ]
    /\ UNCHANGED << last_successful_scrape, shutdown_event, now,
                    sessions, counts, gi, last_set, httpd, handlers >>

\* variant: the failure branch returns with the lock still held
ExceptIncr_KeepsLock ==
    /\ pc = "except_incr"
    /\ consecutive_failures' = consecutive_failures + 1
    /\ pc' = "wait"
    /\ exc' = "none"
    /\ outcome' = "failure"
    /\ tick_start' = [ failures |-> consecutive_failures',
                       last_success |-> last_successful_scrape ]
    /\ UNCHANGED << last_successful_scrape, gauges, metrics_lock, shutdown_event,
                    now, sessions, counts, gi, last_set, httpd, handlers >>

\* consecutive_failures += 1; failure_count = consecutive_failures
ExceptIncr ==
    /\ pc = "except_incr"
    /\ consecutive_failures' = consecutive_failures + 1
    /\ Release(MainThread)
    /\ pc' = "wait"
    /\ exc' = "none"
    /\ outcome' = "failure"
    /\ tick_start' = [ failures |-> consecutive_failures',
                       last_success |-> last_successful_scrape ]
    /\ UNCHANGED << last_successful_scrape, gauges, shutdown_event, now,
                    sessions, counts, gi, last_set, httpd, handlers >>

\* variant: the wait returns at once, as with timeout=0
WaitTimeout_NoDelay ==
    /\ pc = "wait"
    /\ ~shutdown_event
    /\ pc' = "loop"
    /\ UNCHANGED << shared, metrics_lock, shutdown_event, now, pollLocals, httpd, handlers >>

\* variant: time.sleep(SCRAPE_INTERVAL), which no event cuts short
WaitTimeout_IgnoresEvent ==
    /\ pc = "wait"
    /\ now + SCRAPE_INTERVAL <= MaxTime
    /\ now' = now + SCRAPE_INTERVAL
    /\ pc' = "loop"
    /\ UNCHANGED << shared, metrics_lock, shutdown_event, pollLocals, httpd, handlers >>

\* shutdown_event.wait(timeout=SCRAPE_INTERVAL) runs out
WaitTimeout ==
    /\ pc = "wait"
    /\ ~shutdown_event
    /\ now + SCRAPE_INTERVAL <= MaxTime
    /\ now' = now + SCRAPE_INTERVAL
    /\ pc' = "loop"
    /\ UNCHANGED << shared, metrics_lock, shutdown_event, pollLocals, httpd, handlers >>

\* shutdown_event.wait returns True: break
WaitSignalled ==
    /\ pc = "wait"
    /\ shutdown_event
    /\ pc' = "cleanup"
    /\ UNCHANGED << shared, metrics_lock, shutdown_event, now, pollLocals,
                    httpd, handlers >>

\* httpd.shutdown()
ServerShutdown ==
    /\ pc = "cleanup"
    /\ httpd' = "stopped"
    /\ pc' = "stopped"
    /\ UNCHANGED << shared, metrics_lock, shutdown_event, now, pollLocals, handlers >>

\* main returns; the daemon threads die with the process
Exit ==
    /\ pc = "stopped"
    /\ pc' = "exited"
    /\ UNCHANGED << shared, metrics_lock, shutdown_event, now, pollLocals,
                    httpd, handlers >>

\* SIGTERM, SIGINT or SIGHUP: shutdown_event.set()
signal_handler ==
    /\ Running
    /\ ~shutdown_event
    /\ shutdown_event' = TRUE
    /\ UNCHANGED << shared, metrics_lock, now, pc, pollLocals, httpd, handlers >>

\* ------------------------------------------------------ handler threads
HUnchanged == UNCHANGED << shared, shutdown_event, now, pc, pollLocals, httpd >>

\* the server accepts a connection and starts a thread in do_GET
Accept(h, path) ==
    /\ Running
    /\ httpd = "serving"
    /\ handlers[h].pc = "idle"
    /\ handlers' = [handlers EXCEPT ![h] = [IdleHandler EXCEPT !.pc = "do_GET",
                                                             !.path = path]]
    /\ UNCHANGED metrics_lock
    /\ HUnchanged

Respond(h, r) == handlers' = [handlers EXCEPT ![h].pc = "done", ![h].resp = r]

\* variant: liveness that follows the circuit breaker
Healthz_NotWhenOpen(h) ==
    /\ Running
    /\ handlers[h].pc = "do_GET"
    /\ handlers[h].path = "/healthz"
    /\ Respond(h, IF CircuitOpen THEN [status |-> 503, body |-> << "OK" >>]
                                ELSE [status |-> 200, body |-> << "OK" >>])
    /\ UNCHANGED metrics_lock
    /\ HUnchanged

\* if self.path == '/healthz'
Healthz(h) ==
    /\ Running
    /\ handlers[h].pc = "do_GET"
    /\ handlers[h].path = "/healthz"
    /\ Respond(h, [status |-> 200, body |-> << "OK" >>])
    /\ UNCHANGED metrics_lock
    /\ HUnchanged

\* else: 404
NotFound(h) ==
    /\ Running
    /\ handlers[h].pc = "do_GET"
    /\ handlers[h].path \notin { "/healthz", "/ready", "/metrics" }
    /\ Respond(h, [status |-> 404, body |-> << "Not Found" >>])
    /\ UNCHANGED metrics_lock
    /\ HUnchanged

\* elif self.path == '/ready': with metrics_lock:
ReadyLock(h) ==
    /\ Running
    /\ handlers[h].pc = "do_GET"
    /\ handlers[h].path = "/ready"
    /\ Acquire(h)
    /\ handlers' = [handlers EXCEPT ![h].pc = "ready_read_last"]
    /\ HUnchanged

\* last_scrape = last_successful_scrape
ReadyReadLast(h) ==
    /\ Running
    /\ handlers[h].pc = "ready_read_last"
    /\ handlers' = [handlers EXCEPT ![h].pc = "ready_read_failures",
                                    ![h].last_scrape = last_successful_scrape]
    /\ UNCHANGED metrics_lock
    /\ HUnchanged

\* variant: the handler leaves the block without releasing the lock
ReadyReadFailures_KeepsLock(h) ==
    /\ Running
    /\ handlers[h].pc = "ready_read_failures"
    /\ handlers' = [handlers EXCEPT ![h].pc = "ready_decide",
                                    ![h].failures = consecutive_failures]
    /\ UNCHANGED metrics_lock
    /\ HUnchanged

\* failures = consecutive_failures; the with block ends
ReadyReadFailures(h) ==
    /\ Running
    /\ handlers[h].pc = "ready_read_failures"
    /\ Release(h)
    /\ handlers' = [handlers EXCEPT ![h].pc = "ready_decide",
                                    ![h].failures = consecutive_failures]
    /\ HUnchanged

\* lines 70-84; the locals end with the response
ReadyDecide(h) ==
    /\ Running
    /\ handlers[h].pc = "ready_decide"
    /\ handlers' = [handlers EXCEPT
          ![h].pc = "done",
          ![h].last_scrape = 0,
          ![h].failures = 0,
          ![h].resp = ReadyResponse(handlers[h].last_scrape, handlers[h].failures, now)]
    /\ UNCHANGED metrics_lock
    /\ HUnchanged

\* elif self.path == '/metrics': generate_latest reads one gauge after another
MetricsRead(h) ==
    /\ Running
    /\ handlers[h].path = "/metrics"
    /\ handlers[h].pc = "do_GET"
    /\ LET out == Append(handlers[h].out, gauges[GaugeOrder[Len(handlers[h].out) + 1]])
       IN IF Len(out) = Len(GaugeOrder)
          THEN handlers' = [handlers EXCEPT ![h].out = out, ![h].pc = "done",
                               ![h].resp = [status |-> 200, body |-> out]]
          ELSE handlers' = [handlers EXCEPT ![h].out = out]
    /\ UNCHANGED metrics_lock
    /\ HUnchanged

\* do_GET returns and the thread ends
Finish(h) ==
    /\ Running
    /\ handlers[h].pc = "done"
    /\ handlers' = [handlers EXCEPT ![h] = IdleHandler]
    /\ UNCHANGED metrics_lock
    /\ HUnchanged

\* one tick of the poll loop and the wait after it; S is what the upstream
\* may return as its sessions array
TickStep(S) ==
    \/ LoopCheck
    \/ CircuitLock
    \/ CircuitCheck
    \/ SendRequest
    \/ RequestFails
    \/ RequestSucceeds(S)
    \/ SuccessLock
    \/ SuccessWrite
    \/ ClassifySessions
    \/ SetGauge
    \/ ExceptLock
    \/ ExceptIncr
    \/ WaitTimeout

\* the termination signal and what the main thread does about it
ShutdownStep ==
    \/ signal_handler
    \/ WaitSignalled
    \/ ServerShutdown
    \/ Exit

PollStep == TickStep(UpstreamSessions) \/ ShutdownStep

HealthzStep == \E h \in Handlers : Accept(h, "/healthz") \/ Healthz(h)
NotFoundStep == \E h \in Handlers : Accept(h, "/other") \/ NotFound(h)
ReadyStep ==
    \E h \in Handlers :
        \/ Accept(h, "/ready")
        \/ ReadyLock(h)
        \/ ReadyReadLast(h)
        \/ ReadyReadFailures(h)
        \/ ReadyDecide(h)
MetricsStep == \E h \in Handlers : Accept(h, "/metrics") \/ MetricsRead(h)
FinishStep == \E h \in Handlers : Finish(h)

\* the whole program
Next == PollStep \/ HealthzStep \/ NotFoundStep \/ ReadyStep \/ MetricsStep \/ FinishStep
Spec == Init /\ [][Next]_vars

\* the program when no client connects
NextPoll == PollStep
SpecPoll == Init /\ [][NextPoll]_vars

\* the program when the clients are liveness probes
NextHealthz == PollStep \/ HealthzStep \/ FinishStep
SpecHealthz == Init /\ [][NextHealthz]_vars

\* the program when the clients are metrics scrapers
NextScrape == PollStep \/ MetricsStep \/ FinishStep
SpecScrape == Init /\ [][NextScrape]_vars

\* the readiness probes against a poll loop that no signal stops; the gauges
\* play no part in /ready, so the upstream returns ProbeSessions only
NextReady == TickStep(ProbeSessions) \/ ReadyStep \/ FinishStep
SpecReady == Init /\ [][NextReady]_vars

\* ------------------------------------------------------------ scheduling
\* the steps of the main thread that need no lock; the upstream request
\* returns or times out, and the wait runs out or is cut short
MainRuns ==
    \/ LoopCheck
    \/ CircuitCheck
    \/ SendRequest
    \/ RequestFails
    \/ RequestSucceeds(ProbeSessions)
    \/ SuccessWrite
    \/ ClassifySessions
    \/ SetGauge
    \/ ExceptIncr
    \/ WaitTimeout
    \/ WaitSignalled
    \/ ServerShutdown
    \/ Exit

\* "with metrics_lock:" in the main thread
MainLocks == CircuitLock \/ SuccessLock \/ ExceptLock

\* the steps of a handler thread once the connection is accepted, other
\* than taking the lock
HandlerRuns(h) ==
    \/ Healthz(h)
    \/ NotFound(h)
    \/ ReadyReadLast(h)
    \/ ReadyReadFailures(h)
    \/ ReadyDecide(h)
    \/ MetricsRead(h)
    \/ Finish(h)

\* every thread that can run does run, and a thread that waits for the
\* lock gets it if the lock is free again and again; signals and incoming
\* connections are up to the environment
FairScheduling ==
    /\ WF_vars(MainRuns)
    /\ SF_vars(MainLocks)
    /\ \A h \in Handlers : WF_vars(HandlerRuns(h)) /\ SF_vars(ReadyLock(h))

\* a tick while the upstream is down: every request that is sent fails
OutageTick ==
    \/ LoopCheck
    \/ CircuitLock
    \/ CircuitCheck
    \/ SendRequest
    \/ RequestFails
    \/ ExceptLock
    \/ ExceptIncr
    \/ WaitTimeout

\* an outage of the upstream from startup on, up to the open circuit, with
\* readiness probes competing for the lock and a termination signal at any
\* moment; fairly scheduled
NextShutdown == OutageTick \/ ShutdownStep \/ ReadyStep \/ FinishStep
SpecShutdown == Init /\ [][NextShutdown]_vars /\ FairScheduling

\* an outage of the upstream from startup on, with liveness probes,
\* readiness probes and scrapers as clients and no termination signal;
\* fairly scheduled
NextOutage ==
    OutageTick \/ HealthzStep \/ ReadyStep \/ MetricsStep \/ FinishStep
SpecOutage == Init /\ [][NextOutage]_vars /\ FairScheduling

\* the classification alone: the first poll after startup has succeeded
\* with any list of session objects and is about to count them
InitClassify ==
    /\ consecutive_failures = 0
    /\ last_successful_scrape = StartTime
    /\ metrics_lock = << >>
    /\ shutdown_event = FALSE
    /\ gauges = [g \in GaugeNames |-> 0]
    /\ now = StartTime
    /\ pc = "classify"
    /\ sessions \in SeqsUpTo(RawSessions, MaxList)
    /\ counts = ZeroCounts
    /\ gi = 1
    /\ exc = "none"
    /\ tick_start = [ failures |-> 0, last_success |-> 0 ]
    /\ outcome = "none"
    /\ last_set = [g \in GaugeNames |-> 0]
    /\ httpd = "serving"
    /\ handlers = [h \in Handlers |-> IdleHandler]

NextClassify == ClassifySessions \/ SetGauge
SpecClassify == InitClassify /\ [][NextClassify]_vars

\* ===================================================================
\* Properties
\* ===================================================================
ReadyAnswered(h) == handlers[h].path = "/ready" /\ handlers[h].pc = "done"
MetricsAnswered(h) == handlers[h].path = "/metrics" /\ handlers[h].pc = "done"
HealthzAnswered(h) == handlers[h].path = "/healthz" /\ handlers[h].pc = "done"

\* what a /ready request that reads the shared state and the clock now gets
ReadyNow == ReadyResponse(last_successful_scrape, consecutive_failures, now)

TickPcs == { "circuit_lock", "circuit_check", "request", "in_flight",
             "success_lock", "success_write", "classify", "set_gauges",
             "except_lock", "except_incr" }

\* a step in which handler h answers a /ready request
ReadyAnswers(h) == handlers[h].pc = "ready_decide" /\ handlers'[h].pc = "done"

\* C1: every /ready answer is 200 "READY" exactly when the last-success value
\* the handler read is the sentinel 0, or the time since it is below twice
\* the interval and the failure count it read is below the threshold;
\* otherwise it is 503 and the body carries that time and that count.
C1_ReadyContract ==
    [][ \A h \in Handlers :
          ReadyAnswers(h) =>
            LET r == handlers[h]
                since == now - r.last_scrape
            IN IF r.last_scrape = 0
                  \/ (since < 2 * SCRAPE_INTERVAL /\ r.failures < 5)
               THEN handlers'[h].resp = [status |-> 200, body |-> << "READY" >>]
               ELSE /\ handlers'[h].resp.status = 503
                    /\ handlers'[h].resp.body = << "NOT READY", since, r.failures >>
      ]_vars

\* a 503 given for staleness alone, below the failure threshold
C1_Witness ==
    \E h \in Handlers :
        /\ ReadyAnswered(h)
        /\ handlers[h].resp.status = 503
        /\ handlers[h].resp.body[3] < MAX_CONSECUTIVE_FAILURES
        /\ handlers[h].resp.body[2] >= 2 * SCRAPE_INTERVAL

\* C2 as stated: a /ready request that finds the failure counter at the
\* threshold is answered 503, whatever polls led there, also when none of
\* them ever succeeded.
C2_Original ==
    [][ \A h \in Handlers :
          (ReadyAnswers(h) /\ handlers[h].failures >= MAX_CONSECUTIVE_FAILURES)
              => handlers'[h].resp.status = 503 ]_vars

\* C2 as amended: a /ready request that finds the failure counter at the
\* threshold is answered 503 if some poll has succeeded before, and 200 if
\* no poll has ever succeeded.
C2_ThresholdReady ==
    [][ \A h \in Handlers :
          (ReadyAnswers(h) /\ handlers[h].failures >= MAX_CONSECUTIVE_FAILURES)
              => ( handlers'[h].resp.status = 503 <=> handlers[h].last_scrape # 0 )
      ]_vars

\* the breaker opened after a success and /ready answered 503
C2_Witness ==
    \E h \in Handlers :
        /\ ReadyAnswered(h)
        /\ handlers[h].resp.status = 503
        /\ handlers[h].resp.body[3] >= MAX_CONSECUTIVE_FAILURES

\* C3: once the failure counter is at the threshold no step sends an
\* upstream request, the counter keeps its value, and a /ready answer that
\* is 503 stays 503.
C3_NoRecovery ==
    [][ consecutive_failures >= MAX_CONSECUTIVE_FAILURES =>
          /\ consecutive_failures' = consecutive_failures
          /\ pc' \notin { "request", "in_flight" }
          /\ (ReadyNow.status = 503 => ReadyNow'.status = 503) ]_vars

\* a tick that began with the counter at the threshold has been skipped
C3_Witness ==
    /\ pc = "wait"
    /\ outcome = "skipped"
    /\ consecutive_failures = MAX_CONSECUTIVE_FAILURES

\* C4: in every /metrics response the direct-streams value plus the
\* transcode-streams value equals the total-streams value.
C4_NoTornMetrics ==
    \A h \in Handlers :
        MetricsAnswered(h) =>
            handlers[h].resp.body[2] + handlers[h].resp.body[3]
                = handlers[h].resp.body[1]

\* C5: the step that ends a failed tick, and the step that skips a tick
\* because the circuit is open, leave the gauges as they were, which is as
\* the last completed gauge update set them.
C5_FailedTickKeepsGauges ==
    [][ /\ ( pc' = "wait" /\ pc \in { "except_incr", "circuit_check" } )
              => ( gauges' = gauges /\ gauges' = last_set )
        /\ ( pc = "wait" /\ outcome \in { "failure", "skipped" } )
              => ( gauges = last_set /\ gauges' = gauges ) ]_vars

\* a failed tick is over and the gauges still show the sessions of an
\* earlier poll
C5_Witness ==
    /\ pc = "wait"
    /\ outcome = "failure"
    /\ gauges["plex_active_streams_total"] > 0
    /\ gauges = last_set

\* C6: a /healthz handler never holds or waits for the mutex, can always
\* answer while the process runs, and its answer is 200 "OK".
C6_HealthzAlwaysOK ==
    \A h \in Handlers :
        handlers[h].path = "/healthz" =>
            /\ metrics_lock # << h >>
            /\ handlers[h].pc \in { "do_GET", "done" }
            /\ (handlers[h].pc = "do_GET" /\ Running) => ENABLED Healthz(h)
            /\ handlers[h].pc = "done"
                  => handlers[h].resp = [status |-> 200, body |-> << "OK" >>]

\* /healthz answered while the circuit is open and the poll loop holds the
\* mutex
C6_Witness ==
    \E h \in Handlers :
        /\ HealthzAnswered(h)
        /\ handlers[h].resp.status = 200
        /\ CircuitOpen
        /\ metrics_lock = << MainThread >>

\* C7 as stated: with fewer failures than the threshold /ready answers 200
\* while now - last_success < 2*interval, and once now - last_success >=
\* 2*interval it answers 503 whatever the failure count.
C7_Original ==
    [][ \A h \in Handlers :
          ReadyAnswers(h) =>
            LET r == handlers[h]
                since == now - r.last_scrape
            IN /\ (r.failures < MAX_CONSECUTIVE_FAILURES /\ since < 2 * SCRAPE_INTERVAL)
                     => handlers'[h].resp.status = 200
               /\ since >= 2 * SCRAPE_INTERVAL => handlers'[h].resp.status = 503
      ]_vars

\* C7 as amended: the 503 at now - last_success >= 2*interval is given once
\* a poll has succeeded; while no poll has ever succeeded /ready answers 200.
C7_StalenessWindow ==
    [][ \A h \in Handlers :
          ReadyAnswers(h) =>
            LET r == handlers[h]
                since == now - r.last_scrape
            IN /\ (r.failures < MAX_CONSECUTIVE_FAILURES /\ since < 2 * SCRAPE_INTERVAL)
                     => handlers'[h].resp.status = 200
               /\ (r.last_scrape # 0 /\ since >= 2 * SCRAPE_INTERVAL)
                     => handlers'[h].resp.status = 503
               /\ r.last_scrape = 0 => handlers'[h].resp.status = 200
      ]_vars

\* after a success and some failed polls, below the threshold: 503 once the
\* window is over
C7_Witness ==
    \E h \in Handlers :
        /\ ReadyAnswered(h)
        /\ handlers[h].resp.status = 503
        /\ handlers[h].resp.body[3] \in 1..(MAX_CONSECUTIVE_FAILURES - 1)
        /\ handlers[h].resp.body[2] >= 2 * SCRAPE_INTERVAL

\* C8: the step that ends a tick whose request got an HTTP error leaves the
\* failure counter one above its value at the start of the tick and the
\* gauges as the last update set them, and /ready read right after it is
\* 200 if now - last_success < 2*interval.
C8_Http500 ==
    [][ ( pc = "except_incr" /\ exc = "HTTPError" /\ pc' = "wait" ) =>
          /\ consecutive_failures' = tick_start.failures + 1
          /\ gauges' = gauges /\ gauges' = last_set
          /\ (now' - last_successful_scrape' < 2 * SCRAPE_INTERVAL)
                => ReadyNow'.status = 200 ]_vars

\* an HTTP error is being recorded inside the staleness window, with gauges
\* that an earlier poll set
C8_Witness ==
    /\ pc = "except_incr"
    /\ exc = "HTTPError"
    /\ now - last_successful_scrape < 2 * SCRAPE_INTERVAL
    /\ gauges["plex_active_streams_total"] > 0

\* C9: when the event is set while the loop is in its wait, the next step
\* of the main thread leaves the wait for the cleanup with no time added,
\* and the cleanup goes on to stop the server; no tick starts in between.
C9_SignalDuringWait ==
    [][ /\ (pc = "wait" /\ shutdown_event)
            => (pc' \in { "wait", "cleanup" } /\ now' = now)
        /\ pc = "cleanup" => pc' \in { "cleanup", "stopped" } ]_vars

\* the signal has arrived during a wait that still had its interval to run
C9_Witness ==
    /\ pc = "wait"
    /\ shutdown_event
    /\ now + SCRAPE_INTERVAL <= MaxTime

\* the shutdown order that holds of every step: a tick under way runs to its
\* end and records its outcome, the server is stopped outside a tick, and
\* the process exits after the server was stopped
ShutdownOrder ==
    /\ (shutdown_event /\ pc \in TickPcs) => pc' \in TickPcs \cup { "wait" }
    /\ (shutdown_event /\ pc = "in_flight" /\ pc' # pc)
          => pc' \in { "success_lock", "except_lock" }
    /\ (shutdown_event /\ pc = "success_write" /\ pc' # pc)
          => (consecutive_failures' = 0 /\ last_successful_scrape' = now)
    /\ (shutdown_event /\ pc = "except_incr" /\ pc' # pc)
          => consecutive_failures' = consecutive_failures + 1
    /\ (httpd = "serving" /\ httpd' = "stopped") => (shutdown_event /\ pc = "cleanup")
    /\ pc' = "exited" => httpd = "stopped"

\* C10 as stated: once the event is set no upstream request is started,
\* wherever the main thread is, and the shutdown order holds.
C10_Original ==
    [][ /\ shutdown_event => ~(pc = "request" /\ pc' = "in_flight")
        /\ shutdown_event => ~(pc = "loop" /\ pc' = "circuit_lock")
        /\ ShutdownOrder ]_vars

\* C10 as amended: once the event is set the loop condition admits no new
\* tick; a tick that had passed the loop condition before the signal runs
\* on, sending its request if it had not yet done so; the shutdown order
\* holds.
C10_ShutdownOrdering ==
    [][ /\ shutdown_event => ~(pc = "loop" /\ pc' = "circuit_lock")
        /\ ShutdownOrder ]_vars

\* the outcome of a request is being recorded after the signal
C10_Witness ==
    /\ shutdown_event
    /\ pc \in { "success_write", "except_incr" }

C12_CounterTransitions ==
    /\ consecutive_failures = 0
    /\ [][ /\ (pc = "set_gauges" /\ pc' = "wait") => consecutive_failures' = 0
           /\ (pc = "except_incr" /\ pc' = "wait")
                 => consecutive_failures' = tick_start.failures + 1
           /\ consecutive_failures' \in { consecutive_failures, 0,
                                          consecutive_failures + 1 } ]_vars

\* the gauge values that make up the aggregate of the counters c
AggregateOf(c) == [g \in GaugeNames |-> CountOf(c, g)]

\* C13: recording a successful poll is one indivisible step: in every
\* state in which the poll under way has already set the last-success
\* timestamp, the six gauges hold the classification of that poll's
\* sessions.
C13_AtomicSuccess ==
    /\ pc = "classify" => gauges = AggregateOf(Classify(sessions))
    /\ pc = "set_gauges" => gauges = AggregateOf(counts)

\* C14: the step that ends a failed tick leaves the last-success timestamp
\* at the value it had when the tick began, whatever raised the exception.
C14_FailureKeepsTimestamp ==
    [][ (pc = "except_incr" /\ pc' = "wait")
            => last_successful_scrape' = tick_start.last_success ]_vars

\* C15: the pair a /ready handler decides on is the shared pair of one
\* instant: from its first read to its second the shared timestamp stays
\* what it read, and at the second read its two locals equal the shared
\* timestamp and the shared counter of that moment.
C15_NoTornRead ==
    [][ \A h \in Handlers :
          /\ handlers'[h].pc = "ready_read_failures"
                => handlers'[h].last_scrape = last_successful_scrape'
          /\ (handlers[h].pc = "ready_read_failures" /\ handlers'[h].pc = "ready_decide")
                => /\ handlers'[h].last_scrape = last_successful_scrape
                   /\ handlers'[h].failures = consecutive_failures
                   /\ UNCHANGED << last_successful_scrape, consecutive_failures >>
      ]_vars

\* a handler is between its two reads while the poll loop waits for the
\* lock to record a success that changes both values
C15_Witness ==
    \E h \in Handlers :
        /\ handlers[h].pc = "ready_read_failures"
        /\ pc = "success_lock"
        /\ consecutive_failures > 0
        /\ last_successful_scrape # now

\* C16: the main thread owns the mutex only in the circuit check, in the
\* success write and in the increment of a failure branch, so never while
\* a request is prepared or in flight, while the sessions are counted, the
\* gauges are set, or the loop waits; a handler owns it only between its
\* two reads of /ready, before it sends anything.
C16_LockNotAcrossIO ==
    /\ metrics_lock = << MainThread >>
          <=> pc \in { "circuit_check", "success_write", "except_incr" }
    /\ pc \in { "request", "in_flight", "wait" } => metrics_lock # << MainThread >>
    /\ \A h \in Handlers :
          metrics_lock = << h >>
              <=> handlers[h].pc \in { "ready_read_last", "ready_read_failures" }

\* a request is in flight after an earlier failure was recorded under the
\* lock, and a /ready handler owns the lock meanwhile
C16_Witness ==
    /\ pc = "in_flight"
    /\ consecutive_failures > 0
    /\ \E h \in Handlers : metrics_lock = << h >>

C18_LoopNeverCrashes ==
    [][ /\ (exc = "none" /\ exc' # "none") => pc' = "except_lock"
        /\ pc = "except_lock" => pc' \in { "except_lock", "except_incr" }
        /\ (pc = "except_incr" /\ pc' # pc)
              => (pc' = "wait" /\ consecutive_failures' = consecutive_failures + 1)
        /\ (pc = "wait" /\ ~shutdown_event /\ pc' # pc) => pc' = "loop"
        /\ (pc = "loop" /\ ~shutdown_event /\ pc' # pc) => pc' = "circuit_lock"
        /\ pc' \in TickPcs \cup { "loop", "wait", "cleanup", "stopped", "exited" }
        /\ pc' \in { "cleanup", "stopped", "exited" } => shutdown_event ]_vars

\* the wait after a tick that failed while counting the sessions it had
\* got is over, no signal has come, and the loop is about to go on
C18_Witness ==
    /\ pc = "loop"
    /\ ~shutdown_event
    /\ outcome = "failure"
    /\ consecutive_failures = 1
    /\ now - last_successful_scrape = SCRAPE_INTERVAL

\* a session transcodes when one of the decision fields it has is "transcode"
Transcodes(s, f) == f \in DOMAIN s.d /\ s.d[f] = "transcode"
IsTranscode(s) == \E f \in Fields : Transcodes(s, f)
HowMany(ss, Test(_)) == Cardinality({ i \in 1..Len(ss) : Test(ss[i]) })

\* C19: for every session list the counting yields total = length, the
\* transcode count = the number of sessions with at least one decision
\* field equal to "transcode" (each counted once), the direct count = the
\* number of the others, so direct + transcode = length, and each
\* per-dimension count = the number of sessions whose field of that
\* dimension is "transcode"; absent fields count as "direct play".
C19_Classification ==
    [][ (pc = "classify" /\ pc' = "set_gauges") =>
          LET IsDirect(s) == ~IsTranscode(s)
              Video(s) == Transcodes(s, "transcode_video_decision")
              Audio(s) == Transcodes(s, "transcode_audio_decision")
              Container(s) == Transcodes(s, "transcode_container_decision")
          IN /\ counts'.total = Len(sessions)
             /\ counts'.transcode = HowMany(sessions, IsTranscode)
             /\ counts'.direct = HowMany(sessions, IsDirect)
             /\ counts'.direct + counts'.transcode = Len(sessions)
             /\ counts'.video = HowMany(sessions, Video)
             /\ counts'.audio = HowMany(sessions, Audio)
             /\ counts'.container = HowMany(sessions, Container) ]_vars

\* two sessions were counted: one with all three fields "transcode", which
\* counts as one transcode stream, and one direct
C19_Witness ==
    /\ pc = "set_gauges"
    /\ counts.total = 2
    /\ counts.transcode = 1 /\ counts.direct = 1
    /\ counts.video = 1 /\ counts.audio = 1 /\ counts.container = 1

\* C20: the failure counter is always between 0 and the threshold, and it
\* is below the threshold whenever the main thread is past the circuit
\* check with a request to send, a request in flight or an exception to
\* record.
C20_CounterBounded ==
    /\ consecutive_failures \in 0..MAX_CONSECUTIVE_FAILURES
    /\ pc \in { "request", "in_flight", "success_lock", "success_write",
                "classify", "set_gauges", "except_lock", "except_incr" }
          => consecutive_failures < MAX_CONSECUTIVE_FAILURES

\* the circuit check at the start of a tick finds the counter at the threshold
C20_Witness ==
    /\ pc = "circuit_check"
    /\ consecutive_failures = MAX_CONSECUTIVE_FAILURES

====
